---- MODULE Spec2Model ----
(***************************************************************************)
(* Model of src/trend.py (material_news_monitor): the relevance scorer,    *)
(* the bounded-retry getter, the deduplicator and the main aggregation     *)
(* run (per-material fetch/score/filter, pinned signals, deduplication,    *)
(* record building and ranking).                                           *)
(*                                                                         *)
(* Representation choices:                                                 *)
(*  - A title is the set of its lower-cased whitespace-separated tokens    *)
(*    (titles leave clean_text already stripped, so the empty set is the   *)
(*    empty string).  Tokens of Vocabulary share no characters.            *)
(*  - The fuzzy similarities of a row's text against a keyword list are    *)
(*    inputs of the row ("readings", one per term of the list, on SimGrid) *)
(*    because the text/keyword strings themselves are not modelled.        *)
(*  - Time is an integer; a raw stamp is <<t>> when one of the formats of  *)
(*    normalize_date parses it and <<>> when none does.                    *)
(*  - main's list all_rows is kept in three variables: all_rows (the rows  *)
(*    pooled by the loop), pinned_rows (appended after the loop) and       *)
(*    kept_rows (what deduplicate leaves of the two).                      *)
(***************************************************************************)
EXTENDS Integers, Sequences, FiniteSets, TLC

VARIABLES
    \* --- relevance_score, scored on its own
    score_pc, sims, score_plain, score_generic,
    \* --- safe_get
    get_pc, attempt, requests, sleeps, response,
    \* --- deduplicate, run on its own
    dd_pc, dd_rows, dd_keep,
    \* --- main
    pc, idx, all_rows, outcome, fetched, pinned_rows, kept_rows, clock, records

scoreVars == <<score_pc, sims, score_plain, score_generic>>
getVars   == <<get_pc, attempt, requests, sleeps, response>>
ddVars    == <<dd_pc, dd_rows, dd_keep>>
mainVars  == <<pc, idx, all_rows, outcome, fetched, pinned_rows, kept_rows, clock, records>>
vars      == <<scoreVars, getVars, ddVars, mainVars>>

-----------------------------------------------------------------------------
(* Configuration *)

MIN_RELEVANCE == 60
RETRY_ATTEMPTS == 3
\* RETRY_BACKOFF = (1.2, 2.0), in tenths of a second
RETRY_BACKOFF_LO == 12
RETRY_BACKOFF_HI == 20
\* the generic-topic penalty and the near-duplicate threshold
GENERIC_PENALTY == 12
NEAR_DUP == 92
\* Africa/Kampala is UTC+3 the whole year
UTC_OFFSET == 3

\* Two materials of the catalogue, in catalogue order ("LPG GAS" is listed
\* first, "ACETONE" later), so the fetch order is not the sorted order.
MATERIALS == <<"LPG GAS", "ACETONE">>
PINNED_MATERIAL == "MULTI / GLOBAL"
PINNED_SIGNALS == <<"https://www.bbc.com/news/articles/c9qy98gp474o">>
PINNED_FALLBACK_TITLE == {"pinned:", "external", "insight"}

\* Bounds of the model
MaxTerms   == 2   \* readings (terms) per keyword list in the scorer runs
MaxPool    == 3   \* rows of a pool handed to deduplicate on its own
MaxFetched == 2   \* rows fetched over a whole run of main
RunStart   == 5   \* the clock when main builds its pinned rows

-----------------------------------------------------------------------------
(* Helpers *)

Max2(a, b) == IF a >= b THEN a ELSE b
Min2(a, b) == IF a <= b THEN a ELSE b

RECURSIVE MaxOf(_)
\* the "best = 0; for t in terms: best = max(best, reading)" loops
MaxOf(S) == IF S = {} THEN 0
            ELSE LET x == CHOOSE y \in S : TRUE IN Max2(x, MaxOf(S \ {x}))

\* Python's int() on a value given in hundredths: truncation toward zero
IntTrunc(h) == IF h >= 0 THEN h \div 100 ELSE -((-h) \div 100)

RECURSIVE SeqsUpTo(_, _)
SeqsUpTo(S, n) == IF n = 0 THEN {<<>>}
                  ELSE LET shorter == SeqsUpTo(S, n - 1)
                       IN shorter \cup {Append(s, x) : s \in {t \in shorter : Len(t) = n - 1}, x \in S}

-----------------------------------------------------------------------------
(* rapidfuzz.fuzz.token_set_ratio on token sets, floored to an integer      *)

Vocabulary == {"counterfeit", "1", "2"}

TokLen(t) == CASE t = "counterfeit" -> 11
               [] t = "pinned:"     -> 7
               [] t = "external"    -> 8
               [] t = "insight"     -> 7
               [] OTHER             -> 1

RECURSIVE SumLen(_)
SumLen(T) == IF T = {} THEN 0
             ELSE LET t == CHOOSE x \in T : TRUE IN TokLen(t) + SumLen(T \ {t})

\* len(" ".join(tokens))
JoinedLen(T) == IF T = {} THEN 0 ELSE SumLen(T) + Cardinality(T) - 1

\* 100 - 100 * dist / lensum, floored
NormDistance(dist, lensum) == IF lensum = 0 THEN 100 ELSE (100 * (lensum - dist)) \div lensum

token_set_ratio(A, B) ==
    IF A = {} \/ B = {} THEN 0
    ELSE LET intersect == A \cap B
             diff_ab == A \ B
             diff_ba == B \ A
         IN IF intersect # {} /\ (diff_ab = {} \/ diff_ba = {}) THEN 100
            ELSE LET ab_len == JoinedLen(diff_ab)
                     ba_len == JoinedLen(diff_ba)
                     sect_len == JoinedLen(intersect)
                     sep == IF sect_len # 0 THEN 1 ELSE 0
                     sect_ab_len == sect_len + sep + ab_len
                     sect_ba_len == sect_len + sep + ba_len
                     \* the two difference strings share their separators only
                     lcs == Min2(Cardinality(diff_ab), Cardinality(diff_ba)) - 1
                     dist == ab_len + ba_len - 2 * lcs
                     result == NormDistance(dist, sect_ab_len + sect_ba_len)
                 IN IF sect_len = 0 THEN result
                    ELSE Max2(result,
                              Max2(NormDistance(sep + ab_len, sect_len + sect_ab_len),
                                   NormDistance(sep + ba_len, sect_len + sect_ba_len)))

-----------------------------------------------------------------------------
(* relevance_score *)

\* Similarity readings on which double arithmetic and exact arithmetic agree
SimGrid == {0, 33, 60, 100}
ReadingSets == {S \in SUBSET SimGrid : Cardinality(S) >= 1 /\ Cardinality(S) <= MaxTerms}

\* base + mpl_boost + east_boost + global_boost, in hundredths
BoostedSum(r) ==
    100 * MaxOf(r.base_r) + 60 * MaxOf(r.mpl_r) + 35 * MaxOf(r.east_r) + 35 * MaxOf(r.glob_r)

relevance_score_penalty_after_clamp(r) ==
    LET penalty == IF r.generic THEN GENERIC_PENALTY ELSE 0
    IN  IntTrunc(Min2(100 * 100, BoostedSum(r))) - penalty

relevance_score(r) ==
    LET penalty == IF r.generic THEN GENERIC_PENALTY ELSE 0
    IN  IntTrunc(Min2(100 * 100, BoostedSum(r) - 100 * penalty))

\* the readings of a text, and whether the text holds a generic keyword
WithGeneric(r, g) ==
    [base_r |-> r.base_r, mpl_r |-> r.mpl_r, east_r |-> r.east_r, glob_r |-> r.glob_r,
     generic |-> g]

NoReadings == [base_r |-> {0}, mpl_r |-> {0}, east_r |-> {0}, glob_r |-> {0}]

ScoreIdle == score_pc = "idle" /\ sims = NoReadings /\ score_plain = 0 /\ score_generic = 0

\* One item text scored twice, without and with a generic keyword in it
ScoreItem ==
    /\ score_pc = "idle"
    /\ \E b \in ReadingSets, m \in ReadingSets, e \in ReadingSets, g \in ReadingSets :
         LET r == [base_r |-> b, mpl_r |-> m, east_r |-> e, glob_r |-> g]
         IN /\ sims' = r
            /\ score_plain' = relevance_score(WithGeneric(r, FALSE))
            /\ score_generic' = relevance_score(WithGeneric(r, TRUE))
    /\ score_pc' = "scored"
    /\ UNCHANGED <<getVars, ddVars, mainVars>>

-----------------------------------------------------------------------------
(* safe_get and backoff_sleep *)

Outcomes == {"exception", "non200", "ok200"}

\* the guard of the backoff after a failed attempt
ShouldBackoff_AfterEveryAttempt(a) == a <= RETRY_ATTEMPTS

ShouldBackoff(a) == a < RETRY_ATTEMPTS

\* (lo + (hi - lo) * random.random()) * attempt, in tenths of a second
BackoffDurations(a) == {j * a : j \in RETRY_BACKOFF_LO..RETRY_BACKOFF_HI}

GetIdle == get_pc = "request" /\ attempt = 1 /\ requests = <<>> /\ sleeps = <<>>
           /\ response = "pending"

\* requests.get answers 200: the response is returned at once
RequestOk ==
    /\ get_pc = "request"
    /\ attempt <= RETRY_ATTEMPTS
    /\ requests' = Append(requests, "ok200")
    /\ response' = "r200"
    /\ get_pc' = "returned"
    /\ UNCHANGED <<attempt, sleeps>>
    /\ UNCHANGED <<scoreVars, ddVars, mainVars>>

\* requests.get raises or answers another status
RequestFails ==
    /\ get_pc = "request"
    /\ attempt <= RETRY_ATTEMPTS
    /\ \E o \in Outcomes \ {"ok200"} : requests' = Append(requests, o)
    /\ IF ShouldBackoff(attempt)
       THEN \E d \in BackoffDurations(attempt) :
                sleeps' = Append(sleeps, [attempt |-> attempt, tenths |-> d])
       ELSE sleeps' = sleeps
    /\ IF attempt < RETRY_ATTEMPTS
       THEN /\ attempt' = attempt + 1
            /\ UNCHANGED <<get_pc, response>>
       ELSE /\ attempt' = attempt
            /\ get_pc' = "returned"
            /\ response' = "None"
    /\ UNCHANGED <<scoreVars, ddVars, mainVars>>

-----------------------------------------------------------------------------
(* hash_id and deduplicate *)

Urls == {"https://a.example/n1", "https://b.example/n2"}
Titles == SUBSET Vocabulary

\* sha256 over url then title, taken as injective on the pair (a digest
\* that collides drops more rows, never fewer)
hash_id(url, title) == <<url, title>>

\* the inner loop over keep: some kept row has a title similar enough
NearDupOfKept_NoThreshold(rows, keep, r) == FALSE

NearDupOfKept_LastKeptOnly(rows, keep, r) ==
    /\ keep # <<>>
    /\ token_set_ratio(r.title, rows[keep[Len(keep)]].title) >= NEAR_DUP

NearDupOfKept(rows, keep, r) ==
    \E k \in 1..Len(keep) : token_set_ratio(r.title, rows[keep[k]].title) >= NEAR_DUP

RECURSIVE DedupScan(_, _, _, _)
\* the loop of deduplicate from row i on; keep holds positions in rows
DedupScan(rows, i, seen, keep) ==
    IF i > Len(rows) THEN keep
    ELSE LET r == rows[i]
             hid == hash_id(r.url, r.title)
         IN IF hid \in seen THEN DedupScan(rows, i + 1, seen, keep)
            ELSE IF NearDupOfKept(rows, keep, r) THEN DedupScan(rows, i + 1, seen, keep)
            ELSE DedupScan(rows, i + 1, seen \cup {hid}, Append(keep, i))

\* the positions deduplicate keeps, in order
KeptPositions(rows) == DedupScan(rows, 1, {}, <<>>)

deduplicate(rows) == LET keep == KeptPositions(rows) IN [k \in 1..Len(keep) |-> rows[keep[k]]]

PoolRows == [url : Urls, title : Titles]

DedupIdle == dd_pc = "pooled" /\ dd_rows = <<>> /\ dd_keep = <<>>

\* deduplicate called on a pool
RunDeduplicate ==
    /\ dd_pc = "pooled"
    /\ dd_keep' = KeptPositions(dd_rows)
    /\ dd_pc' = "deduplicated"
    /\ UNCHANGED dd_rows
    /\ UNCHANGED <<scoreVars, getVars, mainVars>>

-----------------------------------------------------------------------------
(* normalize_date, record building and the final sort_values *)

\* None (<<>>) for an empty or unparseable stamp; else the stamp read as UTC
\* and moved to Africa/Kampala, the zone tag dropped
normalize_date(s) == IF s = <<>> THEN <<>> ELSE <<s[1] + UTC_OFFSET>>

\* the k-th reading of today_local() among rd
ReadingAt(rd, k) == IF k <= Len(rd) THEN rd[k]
                    ELSE IF Len(rd) > 0 THEN rd[Len(rd)] ELSE RunStart

RECURSIVE BuildFrom(_, _, _, _)
\* the loop that builds recs from row i on; used counts the rows that fell
\* back on today_local() so far
BuildFrom(rows, rd, i, used) ==
    IF i > Len(rows) THEN <<>>
    ELSE LET r == rows[i]
             parsed == normalize_date(r.published)
             pub_dt == IF parsed # <<>> THEN parsed[1] ELSE ReadingAt(rd, used + 1)
             rec == [Material |-> r.material, Source |-> r.source, Title |-> r.title,
                     URL |-> r.url, Published |-> pub_dt, Relevance |-> r.score]
         IN <<rec>> \o BuildFrom(rows, rd, i + 1, IF parsed # <<>> THEN used ELSE used + 1)

BuildRecords(rows, rd) == BuildFrom(rows, rd, 1, 0)

\* the names that occur as Material, in string order
MaterialOrder == <<"ACETONE", "LPG GAS", "MULTI / GLOBAL">>
MaterialRank(m) == CHOOSE i \in 1..Len(MaterialOrder) : MaterialOrder[i] = m

\* a sorts strictly before b under ["Material","Relevance","Published"],
\* ascending=[True, False, False]
SortsBefore_RelevanceAscending(a, b) ==
    \/ MaterialRank(a.Material) < MaterialRank(b.Material)
    \/ /\ a.Material = b.Material
       /\ \/ a.Relevance < b.Relevance
          \/ a.Relevance = b.Relevance /\ a.Published > b.Published

SortsBefore(a, b) ==
    \/ MaterialRank(a.Material) < MaterialRank(b.Material)
    \/ /\ a.Material = b.Material
       /\ \/ a.Relevance > b.Relevance
          \/ a.Relevance = b.Relevance /\ a.Published > b.Published

RECURSIVE InsertSorted(_, _)
\* x goes before the first element it sorts strictly before: equal keys keep
\* their order of arrival
InsertSorted(sorted, x) ==
    IF sorted = <<>> THEN <<x>>
    ELSE IF SortsBefore(x, Head(sorted)) THEN <<x>> \o sorted
    ELSE <<Head(sorted)>> \o InsertSorted(Tail(sorted), x)

RECURSIVE SortFrom(_, _, _)
SortFrom(recs, i, sorted) ==
    IF i > Len(recs) THEN sorted ELSE SortFrom(recs, i + 1, InsertSorted(sorted, recs[i]))

sort_values_ArrivalOrder(recs) == recs

sort_values(recs) == SortFrom(recs, 1, <<>>)

-----------------------------------------------------------------------------
(* main *)

NumMaterials == Len(MATERIALS)

\* what the scorer reads off a fetched text: three texts, scoring 59, 60, 100
FetchReadings ==
    { [base_r |-> {60}, mpl_r |-> {0}, east_r |-> {33}, glob_r |-> {0}, generic |-> TRUE],
      [base_r |-> {60}, mpl_r |-> {0}, east_r |-> {0}, glob_r |-> {0}, generic |-> FALSE],
      [base_r |-> {100}, mpl_r |-> {0}, east_r |-> {0}, glob_r |-> {0}, generic |-> FALSE] }
FetchTitles == {{}, {"counterfeit"}}
FetchStamps == {<<>>, <<1>>}
\* the title fetch_page_meta hands back for a pinned link
PageTitles == {{}, {"counterfeit"}, PINNED_FALLBACK_TITLE}

\* the candidate items of one material, rss_rows + gd_rows; the rows of the
\* two adapters differ in their source tag only, which no operation reads,
\* and carry the tag of the first
FetchedItems(mat) ==
    [material : {mat}, title : FetchTitles, url : Urls, published : FetchStamps,
     readings : FetchReadings, source : {"GoogleNewsRSS"}]

\* for r in rows: r["score"] = relevance_score(r)
ScoreRows(rows) ==
    [i \in 1..Len(rows) |->
        [material |-> rows[i].material, title |-> rows[i].title, url |-> rows[i].url,
         published |-> rows[i].published, readings |-> rows[i].readings,
         source |-> rows[i].source, score |-> relevance_score(rows[i].readings)]]

\* rows = [r for r in rows if r["score"] >= MIN_RELEVANCE]
PassesFloor_Strict(r) == r.score > MIN_RELEVANCE

PassesFloor(r) == r.score >= MIN_RELEVANCE

FloorFilter(rows) == SelectSeq(rows, PassesFloor)

\* where the run stands after the except clause of material i
AfterFailure_Abort(i) == [pc |-> "aborted", idx |-> i]

AfterFailure(i) == [pc |-> "materials", idx |-> i + 1]

PinnedRow(u, title) ==
    [material |-> PINNED_MATERIAL, title |-> IF title # {} THEN title ELSE PINNED_FALLBACK_TITLE,
     url |-> u, published |-> <<RunStart>>, source |-> "Pinned", score |-> 100]

\* the pooled rows of a run: the batches in the given order, then the pinned rows
PoolOf(batches, pinned) == batches \o pinned

\* deduplicate, build the records, sort them
Rank(pool, rd) == sort_values(BuildRecords(deduplicate(pool), rd))

\* n readings of the clock, each at the start of the run or one tick later
RECURSIVE ClockReadings(_)
ClockReadings(n) ==
    IF n = 0 THEN {<<>>}
    ELSE {Append(rd, t) : rd \in ClockReadings(n - 1), t \in {RunStart, RunStart + 1}}

Monotone(rd) == \A k \in 1..(Len(rd) - 1) : rd[k] <= rd[k + 1]

Unparsed(rows) == Len(SelectSeq(rows, LAMBDA r : normalize_date(r.published) = <<>>))

MainIdle ==
    /\ pc = "materials" /\ idx = 1 /\ all_rows = <<>>
    /\ outcome = [i \in 1..NumMaterials |-> "pending"]
    /\ fetched = [i \in 1..NumMaterials |-> <<>>]
    /\ pinned_rows = <<>> /\ kept_rows = <<>> /\ clock = <<>> /\ records = <<>>

RECURSIVE FetchedUpTo(_, _)
FetchedUpTo(f, i) == IF i = 0 THEN 0 ELSE Len(f[i]) + FetchedUpTo(f, i - 1)

\* one pass of the loop body without an exception
MaterialOk ==
    /\ pc = "materials" /\ idx <= NumMaterials
    /\ \E items \in SeqsUpTo(FetchedItems(MATERIALS[idx]),
                              MaxFetched - FetchedUpTo(fetched, NumMaterials)) :
         LET rows == ScoreRows(items)
         IN /\ fetched' = [fetched EXCEPT ![idx] = rows]
            /\ all_rows' = all_rows \o FloorFilter(rows)
    /\ outcome' = [outcome EXCEPT ![idx] = "ok"]
    /\ idx' = idx + 1
    /\ UNCHANGED <<pc, pinned_rows, kept_rows, clock, records>>
    /\ UNCHANGED <<scoreVars, getVars, ddVars>>

\* one pass of the loop body that raises before all_rows.extend
MaterialFails ==
    /\ pc = "materials" /\ idx <= NumMaterials
    /\ outcome' = [outcome EXCEPT ![idx] = "failed"]
    /\ pc' = AfterFailure(idx).pc
    /\ idx' = AfterFailure(idx).idx
    /\ UNCHANGED <<all_rows, fetched, pinned_rows, kept_rows, clock, records>>
    /\ UNCHANGED <<scoreVars, getVars, ddVars>>

\* after the loop: pinned rows, deduplicate, records, sort
Finish ==
    /\ pc = "materials" /\ idx > NumMaterials
    /\ \E titles \in [1..Len(PINNED_SIGNALS) -> PageTitles] :
         LET pinned == [i \in 1..Len(PINNED_SIGNALS) |-> PinnedRow(PINNED_SIGNALS[i], titles[i])]
             pool == PoolOf(all_rows, pinned)
             keep == deduplicate(pool)
         IN /\ pinned_rows' = pinned
            /\ kept_rows' = keep
            /\ \E rd \in {x \in ClockReadings(Unparsed(keep)) : Monotone(x)} :
                 /\ clock' = rd
                 /\ records' = IF keep = <<>> THEN <<>> ELSE Rank(pool, rd)
            /\ pc' = IF keep = <<>> THEN "nothing" ELSE "done"
    /\ UNCHANGED <<idx, all_rows, outcome, fetched>>
    /\ UNCHANGED <<scoreVars, getVars, ddVars>>

-----------------------------------------------------------------------------
(* Specifications *)

InitScore == ScoreIdle /\ GetIdle /\ DedupIdle /\ MainIdle
NextScore == ScoreItem
SpecScore == InitScore /\ [][NextScore]_vars

InitGet == ScoreIdle /\ GetIdle /\ DedupIdle /\ MainIdle
NextGet == RequestOk \/ RequestFails
SpecGet == InitGet /\ [][NextGet]_vars /\ WF_vars(NextGet)

InitDedup ==
    /\ ScoreIdle /\ GetIdle /\ MainIdle
    /\ dd_pc = "pooled" /\ dd_keep = <<>>
    /\ dd_rows \in SeqsUpTo(PoolRows, MaxPool)
NextDedup == RunDeduplicate
SpecDedup == InitDedup /\ [][NextDedup]_vars

Init == ScoreIdle /\ GetIdle /\ DedupIdle /\ MainIdle
Next == MaterialOk \/ MaterialFails \/ Finish
Spec == Init /\ [][Next]_vars

-----------------------------------------------------------------------------
(* Claims about relevance_score (SpecScore) *)

-----------------------------------------------------------------------------
(* Claim about safe_get (SpecGet) *)

Failed(reqs) == Len(SelectSeq(reqs, LAMBDA o : o # "ok200"))

GetSafe ==
    /\ Len(requests) <= RETRY_ATTEMPTS
    /\ \A k \in 1..(Len(requests) - 1) : requests[k] # "ok200"
    /\ (response = "r200") <=> (requests # <<>> /\ requests[Len(requests)] = "ok200")
    /\ response = "r200" => get_pc = "returned"
    /\ (response = "None") <=>
          (get_pc = "returned" /\ Len(requests) = RETRY_ATTEMPTS
           /\ requests[Len(requests)] # "ok200")
    /\ get_pc = "returned" => response # "pending"
    /\ Len(sleeps) = Min2(Failed(requests), RETRY_ATTEMPTS - 1)
    /\ \A k \in 1..Len(sleeps) :
          /\ sleeps[k].attempt = k
          /\ sleeps[k].tenths >= RETRY_BACKOFF_LO * k
          /\ sleeps[k].tenths <= RETRY_BACKOFF_HI * k

\* C9: safe_get makes at most RETRY_ATTEMPTS requests, returns the response
\* at the first 200, sleeps a backoff scaled by the attempt number after each
\* failed attempt but the last, and always returns (None once the attempts
\* are spent).
C9_BoundedRetry == [](GetSafe) /\ <>(get_pc = "returned")

C9_Witness ==
    /\ get_pc = "returned" /\ response = "None"
    /\ Len(requests) = RETRY_ATTEMPTS /\ Len(sleeps) = RETRY_ATTEMPTS - 1

-----------------------------------------------------------------------------
(* Claim about deduplicate on its own (SpecDedup) *)

Kept(i) == \E k \in 1..Len(dd_keep) : dd_keep[k] = i

Identical(r, u) == r.url = u.url /\ r.title = u.title

\* the pairs C3 speaks of
DupPair(r, u) ==
    \/ Identical(r, u)
    \/ r.url # u.url /\ token_set_ratio(r.title, u.title) >= 92

\* the output holds a row equal to row i
InOutput(i) == \E k \in 1..Len(dd_keep) : dd_rows[dd_keep[k]] = dd_rows[i]

\* C3 as stated: of two pooled items that are identical in (URL, title), or
\* have different URLs and title similarity >= 92, the earlier is in the
\* output and the later is not kept.
C3_OnlyFirstSurvives ==
    dd_pc = "deduplicated" =>
        \A i \in 1..Len(dd_rows), j \in 1..Len(dd_rows) :
            (i < j /\ DupPair(dd_rows[i], dd_rows[j])) => (InOutput(i) /\ ~Kept(j))

\* C3 amended: of two such items the later is dropped whenever the earlier is
\* kept, and the later of two identical items is never kept.
C3_LaterDroppedWhenEarlierKept ==
    dd_pc = "deduplicated" =>
        \A i \in 1..Len(dd_rows), j \in 1..Len(dd_rows) :
            (i < j /\ DupPair(dd_rows[i], dd_rows[j])) =>
                /\ Kept(i) => ~Kept(j)
                /\ Identical(dd_rows[i], dd_rows[j]) => ~Kept(j)

\* a pool where one pair loses its later item and another pair its earlier
C3_Witness ==
    /\ dd_pc = "deduplicated"
    /\ \E i \in 1..Len(dd_rows), j \in 1..Len(dd_rows) :
          i < j /\ DupPair(dd_rows[i], dd_rows[j]) /\ Kept(i) /\ ~Kept(j)
    /\ \E i \in 1..Len(dd_rows), j \in 1..Len(dd_rows) :
          i < j /\ DupPair(dd_rows[i], dd_rows[j]) /\ ~Kept(i) /\ Kept(j)

-----------------------------------------------------------------------------
(* Claims about a run of main (Spec) *)

Finished == pc \in {"done", "nothing"}

\* C2: every pinned signal is a record of the final output, with score 100.
C2_PinnedAlwaysPresent ==
    Finished =>
        \A i \in 1..Len(PINNED_SIGNALS) :
            \E k \in 1..Len(records) :
                /\ records[k].URL = PINNED_SIGNALS[i]
                /\ records[k].Source = "Pinned"
                /\ records[k].Relevance = 100

\* C4: the output holds no two records identical in URL and title, and no
\* two records whose titles are >= 92 similar, whatever their materials.
C4_NoDuplicateRecords ==
    Finished =>
        \A i \in 1..Len(records), j \in 1..Len(records) :
            i # j =>
                /\ ~(records[i].URL = records[j].URL /\ records[i].Title = records[j].Title)
                /\ token_set_ratio(records[i].Title, records[j].Title) < 92

\* rows were dropped as duplicates, exact and near, and several records remain
C4_Witness ==
    /\ pc = "done"
    /\ Len(records) >= 2
    /\ Len(records) < Len(all_rows) + Len(pinned_rows)
    /\ \E i \in 1..Len(all_rows), j \in 1..Len(all_rows) :
          i < j /\ all_rows[i].url = all_rows[j].url /\ all_rows[i].title = all_rows[j].title

OfMaterial(rows, m) == SelectSeq(rows, LAMBDA r : r.material = m)

\* C5: a fetched item is pooled exactly when its score is at least the floor
\* of 60, so no record but a pinned one scores below the floor.
C5_RelevanceFloor ==
    /\ \A i \in 1..NumMaterials :
          outcome[i] = "ok" =>
              OfMaterial(all_rows, MATERIALS[i]) = SelectSeq(fetched[i], LAMBDA r : r.score >= 60)
    /\ Finished =>
          \A k \in 1..Len(records) :
              records[k].Source # "Pinned" => records[k].Relevance >= 60

\* one material fetched an item scoring 59 and one scoring 60: only the
\* second is a record
C5_Witness ==
    /\ pc = "done"
    /\ \E i \in 1..NumMaterials :
          /\ Len(fetched[i]) = 2
          /\ fetched[i][1].score = 59 /\ fetched[i][2].score = 60
          /\ Len(OfMaterial(all_rows, MATERIALS[i])) = 1
          /\ \E k \in 1..Len(records) :
                records[k].Material = MATERIALS[i] /\ records[k].Relevance = 60

RECURSIVE InOrder(_, _)
\* the batches that passed the floor, pooled in the given order of materials
InOrder(order, k) ==
    IF k > Len(order) THEN <<>> ELSE FloorFilter(fetched[order[k]]) \o InOrder(order, k + 1)

\* C6: a material that raises does not end the run: every material is
\* attempted, the passing items of every other material are pooled, and the
\* run goes on to the pinned rows, the deduplication and the sort.
C6_FailureIsolation ==
    /\ pc \in {"materials", "done", "nothing"}
    /\ \A i \in 1..NumMaterials : (i < idx) <=> (outcome[i] # "pending")
    /\ \A i \in 1..NumMaterials : outcome[i] = "failed" => fetched[i] = <<>>
    /\ all_rows = InOrder([i \in 1..(idx - 1) |-> i], 1)
    /\ Finished =>
          /\ \A i \in 1..NumMaterials : outcome[i] # "pending"
          /\ Len(pinned_rows) = Len(PINNED_SIGNALS)
          /\ Len(kept_rows) <= Len(all_rows) + Len(pinned_rows)
          /\ Len(records) = Len(kept_rows)
          /\ \A k \in 1..Len(kept_rows) : \E n \in 1..Len(records) :
                records[n].URL = kept_rows[k].url /\ records[n].Title = kept_rows[k].title

\* the first material failed, the second delivered an item that is a record
C6_Witness ==
    /\ pc = "done"
    /\ outcome[1] = "failed" /\ outcome[2] = "ok"
    /\ \E k \in 1..Len(records) : records[k].Material = MATERIALS[2]
    /\ \E k \in 1..Len(records) : records[k].Source = "Pinned"

\* a's sort key is not after b's: Material ascending, then Relevance
\* descending, then Published descending
KeyNotAfter(a, b) ==
    \/ MaterialRank(a.Material) < MaterialRank(b.Material)
    \/ /\ a.Material = b.Material
       /\ \/ a.Relevance > b.Relevance
          \/ a.Relevance = b.Relevance /\ a.Published >= b.Published

SameKey(a, b) ==
    a.Material = b.Material /\ a.Relevance = b.Relevance /\ a.Published = b.Published

PositionIn(seq, x) == CHOOSE k \in 1..Len(seq) : seq[k] = x

OutputInOrder(order) == Rank(PoolOf(InOrder(order, 1), pinned_rows), clock)

\* C8 as stated: whatever the order in which the materials' batches arrive,
\* the pipeline yields the same sequence of records.
C8_ArrivalOrderIrrelevant ==
    pc = "done" =>
        \A order \in Permutations(1..NumMaterials) : OutputInOrder(order) = records

\* no passing item of one material duplicates a passing item of another
NoCrossBatchDuplicates ==
    \A i \in 1..NumMaterials, j \in 1..NumMaterials :
        i # j =>
            \A a \in 1..Len(FloorFilter(fetched[i])), b \in 1..Len(FloorFilter(fetched[j])) :
                LET r == FloorFilter(fetched[i])[a]
                    u == FloorFilter(fetched[j])[b]
                IN /\ hash_id(r.url, r.title) # hash_id(u.url, u.title)
                   /\ token_set_ratio(r.title, u.title) < 92

AllStampsParse == \A k \in 1..Len(all_rows) : normalize_date(all_rows[k].published) # <<>>

\* C8 amended: the output is the same for every arrival order of the batches
\* provided no pooled item of one material is an exact or >= 92 near duplicate
\* of a pooled item of another material and every pooled stamp parses.
C8_OrderIrrelevantWithoutCrossDuplicates ==
    (pc = "done" /\ NoCrossBatchDuplicates /\ AllStampsParse) =>
        \A order \in Permutations(1..NumMaterials) : OutputInOrder(order) = records

\* both materials contribute a record and the premises hold
C8_Witness ==
    /\ pc = "done" /\ NoCrossBatchDuplicates /\ AllStampsParse
    /\ \A i \in 1..NumMaterials : FloorFilter(fetched[i]) # <<>>
    /\ Len(records) = Len(all_rows) + Len(pinned_rows)

====
